---------------------------- MODULE Spec2Model ----------------------------
(***************************************************************************)
(* Model of temporalite's server facade (src/server.go): the functional    *)
(* options, NewServer's bootstrap sequence, the Start/Stop delegation and  *)
(* the client factory.                                                     *)
(*                                                                         *)
(* Four specifications share the module:                                   *)
(*   SpecOptions    the option loop of NewServer (lines 39-41) as a pure   *)
(*                  fold over an option list;                              *)
(*   Spec           successive NewServer calls against a file system and   *)
(*                  a persistence store;                                   *)
(*   SpecClient     NewClient and NewClientWithOptions of a constructed    *)
(*                  Server, with a clock;                                  *)
(*   SpecLifecycle  Start and Stop of a constructed Server.                *)
(***************************************************************************)
EXTENDS Integers, Sequences, FiniteSets, TLC

VARIABLES
    \* SpecOptions: the option loop and the descriptor loop
    optList,      \* the opts argument of NewServer
    optIdx,       \* number of options applied so far
    optCfg,       \* the configuration after optIdx options
    optNs,        \* the namespace descriptors built from it (lines 57-60)
    \* Spec: NewServer
    pc,           \* position of the running NewServer call, "idle" between calls
    c,            \* the liteconfig.Config of the running / last call
    cfg,          \* the converted configuration of the running / last call
    trace,        \* steps taken by the running / last call, in order
    result,       \* what the last call returned
    fs,           \* the file system: state of every path
    db,           \* the SQLite store behind every path
    cur,          \* bookkeeping of the running / last call
    prev,         \* bookkeeping of the call before it
    calls,        \* number of NewServer calls made
    envSteps,     \* number of changes others made to the file system
    \* SpecClient and SpecLifecycle: a constructed Server
    srv,          \* the Server struct
    callerLog,    \* Start / Stop calls made on the facade
    received,     \* Start / Stop calls received by the wrapped temporal.Server
    inflight,     \* Start calls blocked in the wrapped server
    startErr,     \* error the wrapped server's Start ended with
    startRet,     \* error the facade's Start returned
    now,          \* the clock
    clientCall,   \* the last client-factory call and its arguments
    clientOut     \* the options that call handed to client.NewClient

optVars == <<optList, optIdx, optCfg, optNs>>
newVars == <<pc, c, cfg, trace, result, fs, db, cur, prev, calls, envSteps>>
facVars == <<srv, callerLog, received, inflight, startErr, startRet, now,
             clientCall, clientOut>>
vars == <<optList, optIdx, optCfg, optNs,
          pc, c, cfg, trace, result, fs, db, cur, prev, calls, envSteps,
          srv, callerLog, received, inflight, startErr, startRet, now,
          clientCall, clientOut>>

-----------------------------------------------------------------------------
(* Bounds and input domains *)

MaxOpts == 3            \* longest option list of SpecOptions
MaxNewOpts == 1         \* longest option list of a NewServer call in Spec
MaxCalls == 2           \* NewServer calls per behaviour
MaxEnvSteps == 1        \* changes made by others to a database file
MaxFacadeCalls == 3     \* Start / Stop calls per behaviour
MaxTime == 4            \* last clock tick

DefaultPath == "default.db"
Paths == {DefaultPath, "x.db"}
Names == {"a", "b"}
Loggers == {"logA", "logB"}
Chans == {"ch1"}
DefaultFrontendPort == 7233
Ports == {DefaultFrontendPort, 8233}
DynPorts == {40001, 40002}
NilInterrupt == "nil"
DefaultLogger == "zap"

-----------------------------------------------------------------------------
(* liteconfig.Config and the option combinators *)

\* liteconfig.NewDefaultConfig
NewDefaultConfig ==
    [ Ephemeral        |-> FALSE,
      DatabaseFilePath |-> DefaultPath,
      FrontendPort     |-> DefaultFrontendPort,
      DynamicPorts     |-> FALSE,
      Namespaces       |-> <<>>,
      Logger           |-> DefaultLogger,
      InterruptOn      |-> NilInterrupt ]

\* An option value: the closure built by a WithX constructor, as the
\* constructor's name and its captured argument.
Opt(kind, str, num, list) ==
    [kind |-> kind, str |-> str, num |-> num, list |-> list]

WithLogger(logger) == Opt("WithLogger", logger, 0, <<>>)
WithDatabaseFilePath(filepath) == Opt("WithDatabaseFilePath", filepath, 0, <<>>)
WithPersistenceDisabled == Opt("WithPersistenceDisabled", "", 0, <<>>)
WithFrontendPort(port) == Opt("WithFrontendPort", "", port, <<>>)
WithDynamicPorts == Opt("WithDynamicPorts", "", 0, <<>>)
WithNamespaces(namespaces) == Opt("WithNamespaces", "", 0, namespaces)
WithInterruptOn(interruptCh) == Opt("WithInterruptOn", interruptCh, 0, <<>>)

\* The closure bodies.
applyWithLogger(config, logger) == [config EXCEPT !.Logger = logger]

\* Faulty variant: the path is set and the persistence mode left as it was.
applyWithDatabaseFilePathKeepMode(config, filepath) ==
    [config EXCEPT !.DatabaseFilePath = filepath]

applyWithDatabaseFilePath(config, filepath) ==
    [config EXCEPT !.Ephemeral = FALSE, !.DatabaseFilePath = filepath]

applyWithPersistenceDisabled(config) == [config EXCEPT !.Ephemeral = TRUE]

applyWithFrontendPort(config, port) == [config EXCEPT !.FrontendPort = port]

applyWithDynamicPorts(config) == [config EXCEPT !.DynamicPorts = TRUE]

\* Faulty variant: the list is replaced instead of extended.
applyWithNamespacesReplace(config, namespaces) ==
    [config EXCEPT !.Namespaces = namespaces]

applyWithNamespaces(config, namespaces) ==
    [config EXCEPT !.Namespaces = config.Namespaces \o namespaces]

applyWithInterruptOn(config, interruptCh) ==
    [config EXCEPT !.InterruptOn = interruptCh]

\* applyFuncContainer.apply: run the closure on the configuration.
apply(opt, config) ==
    CASE opt.kind = "WithLogger" -> applyWithLogger(config, opt.str)
      [] opt.kind = "WithDatabaseFilePath" ->
            applyWithDatabaseFilePath(config, opt.str)
      [] opt.kind = "WithPersistenceDisabled" ->
            applyWithPersistenceDisabled(config)
      [] opt.kind = "WithFrontendPort" -> applyWithFrontendPort(config, opt.num)
      [] opt.kind = "WithDynamicPorts" -> applyWithDynamicPorts(config)
      [] opt.kind = "WithNamespaces" -> applyWithNamespaces(config, opt.list)
      [] opt.kind = "WithInterruptOn" -> applyWithInterruptOn(config, opt.str)

\* The loop of NewServer, lines 39-41: every option, in argument order.
RECURSIVE ApplyOpts(_, _)
ApplyOpts(opts, config) ==
    IF opts = <<>> THEN config
    ELSE ApplyOpts(Tail(opts), apply(Head(opts), config))

\* Sequences over S of length at most n.
SeqsUpTo(S, n) == UNION { [1..k -> S] : k \in 0..n }

\* Every option value the model passes to NewServer.
AllOptions ==
    { WithLogger(l) : l \in Loggers }
    \cup { WithDatabaseFilePath(p) : p \in Paths }
    \cup { WithPersistenceDisabled, WithDynamicPorts }
    \cup { WithFrontendPort(n) : n \in Ports }
    \cup { WithNamespaces(ns) : ns \in SeqsUpTo(Names, 2) }
    \cup { WithInterruptOn(ch) : ch \in Chans }

-----------------------------------------------------------------------------
(* liteconfig.Convert and the values NewServer builds from it *)

ClusterName == "active"
LocalHost == "127.0.0.1"

\* liteconfig.Convert: the SQLite datastore (in memory or on the configured
\* file), the single current cluster, and the frontend address on the fixed
\* port or, with DynamicPorts, on the port the system handed out.
Convert(config, dynPort) ==
    [ valid |-> TRUE,
      SQL |-> [ PluginName   |-> "sqlite",
                InMemory     |-> config.Ephemeral,
                DatabaseName |-> IF config.Ephemeral THEN ""
                                 ELSE config.DatabaseFilePath ],
      CurrentClusterName |-> ClusterName,
      Authorization |-> [Authorizer |-> "", ClaimMapper |-> ""],
      HostPort |-> [ host |-> LocalHost,
                     port |-> IF config.DynamicPorts THEN dynPort
                              ELSE config.FrontendPort ] ]

NoCfg ==
    [ valid |-> FALSE,
      SQL |-> [PluginName |-> "", InMemory |-> FALSE, DatabaseName |-> ""],
      CurrentClusterName |-> "",
      Authorization |-> [Authorizer |-> "", ClaimMapper |-> ""],
      HostPort |-> [host |-> "", port |-> 0] ]

\* sqlite.NewNamespaceConfig(clusterName, ns, false)
NewNamespaceConfig(clusterName, ns, isGlobal) ==
    [ClusterName |-> clusterName, Name |-> ns, IsGlobal |-> isGlobal]

\* Lines 57-60: one descriptor per configured namespace, in list order.
\* Faulty variant: every descriptor aliases the loop variable and so names
\* the last namespace.
NamespaceConfigsAliased(converted, config) ==
    [ i \in 1..Len(config.Namespaces) |->
        NewNamespaceConfig(converted.CurrentClusterName,
                           config.Namespaces[Len(config.Namespaces)], FALSE) ]

NamespaceConfigs(converted, config) ==
    [ i \in 1..Len(config.Namespaces) |->
        NewNamespaceConfig(converted.CurrentClusterName,
                           config.Namespaces[i], FALSE) ]

-----------------------------------------------------------------------------
(* The environment of NewServer: the file system and the SQLite store *)

\* A path is "absent" (nothing there), "present" (a database file), "blocked"
\* (nothing there, and a component of the path is not a directory) or
\* "hidden" (a database file inside a directory that cannot be searched).
FsStates == {"absent", "present", "blocked", "hidden"}

Exists(state) == state \in {"present", "hidden"}

\* Whether SQLite can open or create the database file at a path.
Reachable(state) == state \in {"absent", "present"}

\* os.Stat(c.DatabaseFilePath): the error it returns.
Stat(fsys, path) ==
    CASE fsys[path] = "present" -> "nil"
      [] fsys[path] = "absent"  -> "ENOENT"
      [] fsys[path] = "blocked" -> "ENOTDIR"
      [] fsys[path] = "hidden"  -> "EACCES"

\* os.IsNotExist(err)
IsNotExist(err) == err = "ENOENT"

Causes == {"disk I/O error"}

NoStore == [schema |-> "none", namespaces |-> {}]
FullStore == [schema |-> "complete", namespaces |-> {}]

\* sqlite.SetupSchema(sqlConfig): it succeeds, fails before the database
\* file is created, or fails with part of the schema applied.
SetupSchemaOutcomes(sql, fsys) ==
    IF ~sql.InMemory /\ ~Reachable(fsys[sql.DatabaseName])
    THEN {"errEarly"}
    ELSE {"ok", "errEarly", "errPartial"}

FsAfterSetupSchema(sql, fsys, out) ==
    IF sql.InMemory \/ out = "errEarly" THEN fsys
    ELSE [fsys EXCEPT ![sql.DatabaseName] = "present"]

DbAfterSetupSchema(sql, store, out) ==
    IF sql.InMemory \/ out = "errEarly" THEN store
    ELSE [store EXCEPT ![sql.DatabaseName].schema =
             IF out = "ok" \/ @ = "complete" THEN "complete" ELSE "partial"]

\* sqlite.CreateNamespaces(sqlConfig, namespaces...): it succeeds or fails;
\* it cannot succeed on a database file it cannot open.
CreateNamespacesOutcomes(sql, fsys) ==
    IF ~sql.InMemory /\ ~Reachable(fsys[sql.DatabaseName])
    THEN {"err"}
    ELSE {"ok", "err"}

\* The namespaces it has created when it returns: all of them on success,
\* those before the failing one otherwise.
CreatedCounts(sql, fsys, out, n) ==
    IF out = "ok" THEN {n}
    ELSE IF ~sql.InMemory /\ ~Reachable(fsys[sql.DatabaseName]) THEN {0}
    ELSE IF n = 0 THEN {0} ELSE 0..(n - 1)

FsAfterCreateNamespaces(sql, fsys) ==
    IF sql.InMemory \/ ~Reachable(fsys[sql.DatabaseName]) THEN fsys
    ELSE [fsys EXCEPT ![sql.DatabaseName] = "present"]

DbAfterCreateNamespaces(sql, fsys, store, namespaces, k) ==
    IF sql.InMemory \/ ~Reachable(fsys[sql.DatabaseName]) THEN store
    ELSE [store EXCEPT ![sql.DatabaseName].namespaces =
             @ \cup { namespaces[i].Name : i \in 1..k }]

-----------------------------------------------------------------------------
(* NewServer *)

\* The messages of the fmt.Errorf calls.
ErrSchema == "error setting up schema"
\* Faulty variant: the message of the schema step copied to the next one.
ErrNamespacesAsSchema == "error setting up schema"
ErrNamespaces == "error creating namespaces"
ErrAuthorizer == "unable to instantiate authorizer"
ErrClaimMapper == "unable to instantiate claim mapper"

NoErr == [prefix |-> "", cause |-> "nil"]
\* fmt.Errorf("<prefix>: %w", err)
Wrap(prefix, cause) == [prefix |-> prefix, cause |-> cause]
\* return nil, err: the cause as it came
Raw(cause) == [prefix |-> "", cause |-> cause]

NoServer ==
    [ valid |-> FALSE,
      internal |-> [config |-> NoCfg, logger |-> "", interruptOn |-> ""],
      frontendHostPort |-> [host |-> "", port |-> 0],
      config |-> NewDefaultConfig ]

\* Lines 75-93: the wrapped server is built from the converted configuration,
\* the logger and, when registered, the interrupt option; the facade keeps the
\* frontend address of the converted configuration and the configuration.
MakeServer(config, converted) ==
    [ valid |-> TRUE,
      internal |-> [ config      |-> converted,
                     logger      |-> config.Logger,
                     interruptOn |-> config.InterruptOn ],
      frontendHostPort |-> converted.HostPort,
      config |-> config ]

NoResult == [returned |-> FALSE, server |-> NoServer, err |-> NoErr]
Return(server, err) == [returned |-> TRUE, server |-> server, err |-> err]

\* Faulty variants of the condition below: no file check at all, and the
\* schema set up again after a failed call.
ShouldSetupSchemaAlways(config, fsys) == TRUE

ShouldSetupSchemaAfterFailure(config, fsys) ==
    IF config.Ephemeral THEN TRUE
    ELSE \/ IsNotExist(Stat(fsys, config.DatabaseFilePath))
         \/ prev.valid /\ ~prev.ok

\* Lines 46 and 50: the condition under which sqlite.SetupSchema is called.
ShouldSetupSchema(config, fsys) ==
    IF config.Ephemeral THEN TRUE
    ELSE IsNotExist(Stat(fsys, config.DatabaseFilePath))

\* Bookkeeping of one NewServer call.
NoCall ==
    [ valid      |-> FALSE,     \* a call was made
      configured |-> FALSE,     \* it got past NewDefaultConfig
      eph        |-> FALSE,     \* c.Ephemeral
      path       |-> "",        \* c.DatabaseFilePath
      fsAtCall   |-> "absent",  \* state of that path when the call began
      fsAtStat   |-> "absent",  \* and when os.Stat looked at it (line 50)
      nsBefore   |-> {},        \* namespaces stored behind it at that time
      statErr    |-> "notConsulted",   \* what os.Stat returned, if called
      schemaDone |-> FALSE,     \* the schema block (lines 46-54) is over
      ranSchema  |-> FALSE,     \* sqlite.SetupSchema was called
      created    |-> FALSE,     \* and created the database file
      nsCalls    |-> 0,         \* calls of sqlite.CreateNamespaces
      nsArgs     |-> <<>>,      \* the descriptors passed to it
      schemaAtNs |-> "none",    \* schema of the store at that call
      failedAt   |-> "",        \* the step that failed
      returned   |-> FALSE,
      ok         |-> FALSE,     \* returned a server
      err        |-> NoErr,     \* the error returned
      fsAtReturn |-> "absent",  \* state of the path when the call returned
      schemaAtReturn |-> "none",
      envDuring  |-> FALSE,     \* others changed the path while the call ran
      envSince   |-> FALSE ]    \* others changed the path since it returned

\* What is kept of a call once the next one begins.
Summary(call) ==
    [ valid |-> call.valid, configured |-> call.configured,
      eph |-> call.eph, path |-> call.path,
      fsAtCall |-> call.fsAtCall, ranSchema |-> call.ranSchema,
      created |-> call.created, failedAt |-> call.failedAt,
      ok |-> call.ok, err |-> call.err,
      fsAtReturn |-> call.fsAtReturn,
      schemaAtReturn |-> call.schemaAtReturn,
      envDuring |-> call.envDuring,
      envSince |-> call.envSince ]

\* The option values of the NewServer calls of Spec: those that decide the
\* bootstrap (SpecOptions takes every option).
NewOptions ==
    { WithDatabaseFilePath(p) : p \in Paths }
    \cup { WithPersistenceDisabled }
    \cup { WithNamespaces(<<"a", "b">>) }

\* The option lists of the calls: every list up to MaxNewOpts, and one that
\* makes the store ephemeral after naming a database file.
NewOptionLists ==
    SeqsUpTo(NewOptions, MaxNewOpts)
    \cup { <<WithDatabaseFilePath("x.db"), WithPersistenceDisabled>> }

\* Lines 35-41 on every option list of a call: the configurations NewServer
\* can end the option loop with.
NewConfigs ==
    { ApplyOpts(opts, NewDefaultConfig) : opts \in NewOptionLists }

InitFs == [Paths -> FsStates]

InitDb(fsys) == [p \in Paths |-> IF Exists(fsys[p]) THEN FullStore ELSE NoStore]

Failed(call, step, err, fsys, store) ==
    [call EXCEPT !.returned = TRUE, !.ok = FALSE, !.failedAt = step,
                 !.err = err,
                 !.fsAtReturn = IF call.configured THEN fsys[call.path] ELSE @,
                 !.schemaAtReturn =
                     IF call.configured THEN store[call.path].schema ELSE @]

\* Lines 34-43: the default configuration, the options, the conversion.
CallNewServer ==
    /\ pc = "idle"
    /\ calls < MaxCalls
    /\ calls' = calls + 1
    /\ prev' = Summary(cur)
    /\ \/ \E cause \in Causes :
            /\ trace' = <<"NewDefaultConfig">>
            /\ result' = Return(NoServer, Raw(cause))
            /\ cur' = Failed([NoCall EXCEPT !.valid = TRUE],
                             "NewDefaultConfig", Raw(cause), fs, db)
            /\ UNCHANGED <<pc, c, cfg>>
       \/ \E config \in NewConfigs :
          \E dynPort \in IF config.DynamicPorts THEN DynPorts ELSE {0} :
            /\ c' = config
            /\ cfg' = Convert(config, dynPort)
            /\ trace' = <<"NewDefaultConfig", "apply", "Convert">>
            /\ result' = NoResult
            /\ pc' = "schema"
            /\ cur' = [NoCall EXCEPT
                         !.valid = TRUE, !.configured = TRUE,
                         !.eph = config.Ephemeral,
                         !.path = config.DatabaseFilePath,
                         !.fsAtCall = fs[config.DatabaseFilePath],
                         !.nsBefore = db[config.DatabaseFilePath].namespaces]
    /\ UNCHANGED <<fs, db, envSteps, optVars, facVars>>

\* Lines 46 and 50: the branch on c.Ephemeral and, for a database file, the
\* call of os.Stat. The file system is read as it is at this moment; the call
\* of sqlite.SetupSchema is a later step.
StatStep ==
    /\ pc = "schema"
    /\ LET path == c.DatabaseFilePath
           seen == IF c.Ephemeral THEN cur
                   ELSE [cur EXCEPT !.statErr = Stat(fs, path),
                                    !.fsAtStat = fs[path]]
       IN  /\ trace' = IF c.Ephemeral THEN trace ELSE Append(trace, "os.Stat")
           /\ IF ShouldSetupSchema(c, fs)
              THEN /\ pc' = "setup"
                   /\ cur' = seen
              ELSE /\ pc' = "namespaces"
                   /\ cur' = [seen EXCEPT !.schemaDone = TRUE]
    /\ UNCHANGED <<c, cfg, fs, db, result, prev, calls, envSteps, optVars, facVars>>

\* Lines 47 and 51: sqlite.SetupSchema, on the file system as it is when the
\* call is made, which need not be as os.Stat saw it.
SetupSchemaStep ==
    /\ pc = "setup"
    /\ LET path == c.DatabaseFilePath
       IN  \E out \in SetupSchemaOutcomes(cfg.SQL, fs), cause \in Causes :
             LET fsys == FsAfterSetupSchema(cfg.SQL, fs, out)
                 store == DbAfterSetupSchema(cfg.SQL, db, out)
                 ran == [cur EXCEPT
                           !.schemaDone = TRUE,
                           !.ranSchema = TRUE,
                           !.created = ~Exists(fs[path]) /\ Exists(fsys[path])]
             IN  /\ fs' = fsys
                 /\ db' = store
                 /\ trace' = Append(trace, "SetupSchema")
                 /\ IF out = "ok"
                    THEN /\ pc' = "namespaces"
                         /\ cur' = ran
                         /\ result' = result
                    ELSE /\ pc' = "idle"
                         /\ cur' = Failed(ran, "SetupSchema",
                                          Wrap(ErrSchema, cause), fsys, store)
                         /\ result' = Return(NoServer, Wrap(ErrSchema, cause))
    /\ UNCHANGED <<c, cfg, prev, calls, envSteps, optVars, facVars>>

\* Lines 56-63: the descriptors, and sqlite.CreateNamespaces.
NamespacesStep ==
    /\ pc = "namespaces"
    /\ LET namespaces == NamespaceConfigs(cfg, c)
           path == c.DatabaseFilePath
       IN  \E out \in CreateNamespacesOutcomes(cfg.SQL, fs), cause \in Causes :
           \E k \in CreatedCounts(cfg.SQL, fs, out, Len(namespaces)) :
             LET fsys == FsAfterCreateNamespaces(cfg.SQL, fs)
                 store == DbAfterCreateNamespaces(cfg.SQL, fs, db, namespaces, k)
                 called == [cur EXCEPT !.nsCalls = @ + 1,
                                       !.nsArgs = namespaces,
                                       !.schemaAtNs = db[path].schema]
             IN  /\ fs' = fsys
                 /\ db' = store
                 /\ trace' = Append(trace, "CreateNamespaces")
                 /\ IF out = "ok"
                    THEN /\ pc' = "authorizer"
                         /\ cur' = called
                         /\ result' = result
                    ELSE /\ pc' = "idle"
                         /\ cur' = Failed(called, "CreateNamespaces",
                                          Wrap(ErrNamespaces, cause), fsys, store)
                         /\ result' = Return(NoServer, Wrap(ErrNamespaces, cause))
    /\ UNCHANGED <<c, cfg, prev, calls, envSteps, optVars, facVars>>

\* Lines 65-68: authorization.GetAuthorizerFromConfig.
AuthorizerStep ==
    /\ pc = "authorizer"
    /\ trace' = Append(trace, "GetAuthorizerFromConfig")
    /\ \/ /\ pc' = "claimMapper"
          /\ UNCHANGED <<cur, result>>
       \/ \E cause \in Causes :
            /\ pc' = "idle"
            /\ cur' = Failed(cur, "GetAuthorizerFromConfig",
                             Wrap(ErrAuthorizer, cause), fs, db)
            /\ result' = Return(NoServer, Wrap(ErrAuthorizer, cause))
    /\ UNCHANGED <<c, cfg, fs, db, prev, calls, envSteps, optVars, facVars>>

\* Lines 70-73: authorization.GetClaimMapperFromConfig.
ClaimMapperStep ==
    /\ pc = "claimMapper"
    /\ trace' = Append(trace, "GetClaimMapperFromConfig")
    /\ \/ /\ pc' = "construct"
          /\ UNCHANGED <<cur, result>>
       \/ \E cause \in Causes :
            /\ pc' = "idle"
            /\ cur' = Failed(cur, "GetClaimMapperFromConfig",
                             Wrap(ErrClaimMapper, cause), fs, db)
            /\ result' = Return(NoServer, Wrap(ErrClaimMapper, cause))
    /\ UNCHANGED <<c, cfg, fs, db, prev, calls, envSteps, optVars, facVars>>

\* Lines 75-95: temporal.NewServer and the Server struct.
ConstructStep ==
    /\ pc = "construct"
    /\ trace' = Append(trace, "temporal.NewServer")
    /\ pc' = "idle"
    /\ result' = Return(MakeServer(c, cfg), NoErr)
    /\ cur' = [cur EXCEPT !.returned = TRUE, !.ok = TRUE,
                          !.fsAtReturn = fs[cur.path],
                          !.schemaAtReturn = db[cur.path].schema]
    /\ UNCHANGED <<c, cfg, fs, db, prev, calls, envSteps, optVars, facVars>>

\* NewServer holds no lock on the database file: another process, or another
\* NewServer call on the same path, can remove or create the file at any
\* moment, between two calls as well as between two lines of a running call.
\* A call reads and writes no path but its own DatabaseFilePath, so the
\* changes that matter are those of the path of the running or last call; the
\* other paths start in any state. A file made by someone else is a
\* database with its schema, as the files of the initial state are. The
\* bookkeeping notes whether the change fell into a call or after it.
Touched(call, p, running) ==
    IF call.configured /\ call.path = p
    THEN IF running THEN [call EXCEPT !.envDuring = TRUE]
                    ELSE [call EXCEPT !.envSince = TRUE]
    ELSE call

EnvRemoveFile ==
    /\ envSteps < MaxEnvSteps
    /\ envSteps' = envSteps + 1
    /\ \E p \in {c.DatabaseFilePath} :
         /\ fs[p] = "present"
         /\ fs' = [fs EXCEPT ![p] = "absent"]
         /\ db' = [db EXCEPT ![p] = NoStore]
         /\ cur' = Touched(cur, p, pc # "idle")
    /\ UNCHANGED <<pc, c, cfg, trace, result, prev, calls, optVars, facVars>>

EnvCreateFile ==
    /\ envSteps < MaxEnvSteps
    /\ envSteps' = envSteps + 1
    /\ \E p \in {c.DatabaseFilePath} :
         /\ fs[p] = "absent"
         /\ fs' = [fs EXCEPT ![p] = "present"]
         /\ db' = [db EXCEPT ![p] = FullStore]
         /\ cur' = Touched(cur, p, pc # "idle")
    /\ UNCHANGED <<pc, c, cfg, trace, result, prev, calls, optVars, facVars>>

-----------------------------------------------------------------------------
(* The methods of Server *)

\* time.Minute, in seconds, the unit of the clock.
TimeMinute == 60

\* A context: without a deadline, or made by context.WithTimeout(span) at
\* some earlier time.
NoDeadline == [hasDeadline |-> FALSE, deadline |-> 0, span |-> 0]
Spans == {2, 5, 61}
Contexts(t) ==
    {NoDeadline}
    \cup { [hasDeadline |-> TRUE, deadline |-> made + span, span |-> span] :
             made \in 0..t, span \in Spans }

\* Faulty variant: the subtraction the wrong way round.
timeoutFromContextReversed(ctx, t, defaultTimeout) ==
    IF ctx.hasDeadline THEN t - ctx.deadline ELSE defaultTimeout

\* timeoutFromContext(ctx, defaultTimeout) called at time t, in seconds.
timeoutFromContext(ctx, t, defaultTimeout) ==
    IF ctx.hasDeadline THEN ctx.deadline - t ELSE defaultTimeout

\* client.Options and its zero value.
ZeroConnectionOptions == [DisableHealthCheck |-> FALSE, HealthCheckTimeout |-> 0]
ZeroOptions ==
    [ HostPort |-> [host |-> "", port |-> 0],
      ConnectionOptions |-> ZeroConnectionOptions,
      Namespace |-> "",
      Identity |-> "" ]

\* The options a caller may pass.
CallerOptions ==
    [ HostPort : { [host |-> "", port |-> 0],
                   [host |-> "10.0.0.9", port |-> DefaultFrontendPort] },
      ConnectionOptions : { ZeroConnectionOptions,
                            [DisableHealthCheck |-> TRUE,
                             HealthCheckTimeout |-> 9] },
      Namespace : {""} \cup Names,
      Identity : {"", "worker-1"} ]

\* Faulty variant: a caller-supplied address is kept.
NewClientWithOptionsKeepHostPort(server, ctx, t, options) ==
    [options EXCEPT
       !.HostPort = IF @.host = "" THEN server.frontendHostPort ELSE @,
       !.ConnectionOptions =
           [ DisableHealthCheck |-> FALSE,
             HealthCheckTimeout |-> timeoutFromContext(ctx, t, TimeMinute) ]]

\* Server.NewClientWithOptions at time t: the options given to
\* client.NewClient.
NewClientWithOptions(server, ctx, t, options) ==
    [options EXCEPT
       !.HostPort = server.frontendHostPort,
       !.ConnectionOptions =
           [ DisableHealthCheck |-> FALSE,
             HealthCheckTimeout |-> timeoutFromContext(ctx, t, TimeMinute) ]]

\* Server.NewClient at time t.
NewClient(server, ctx, t, namespace) ==
    NewClientWithOptions(server, ctx, t,
                         [ZeroOptions EXCEPT !.Namespace = namespace])

NoClientCall ==
    [ method |-> "", ctx |-> NoDeadline, at |-> 0, namespace |-> "",
      options |-> ZeroOptions ]
NoClientOut == [called |-> FALSE, options |-> ZeroOptions, err |-> "nil"]

\* client.NewClient: a client, or an error.
ClientErrors == {"nil", "dial failed"}

\* Faulty variant: Stop forwarded only to a started server.
StopGuarded(log) ==
    IF log # <<>> /\ log[Len(log)] = "Start" THEN Append(log, "Stop") ELSE log

\* Server.Start and Server.Stop: the calls the wrapped server has received.
StartForward(log) == Append(log, "Start")
StopForward(log) == Append(log, "Stop")

\* What temporal.Server.Start ends with.
StartErrors == {"nil", "server failed"}

\* The servers NewServer returns for the options that decide the frontend
\* address.
FacadeOptions ==
    { WithFrontendPort(n) : n \in Ports } \cup { WithDynamicPorts }

Servers ==
    { MakeServer(ApplyOpts(opts, NewDefaultConfig),
                 Convert(ApplyOpts(opts, NewDefaultConfig), dynPort)) :
        opts \in SeqsUpTo(FacadeOptions, 2), dynPort \in DynPorts }

-----------------------------------------------------------------------------
(* Idle values of the variables a specification does not use *)

NoDescriptors == [built |-> FALSE, list |-> <<>>]

IdleOptions ==
    /\ optList = <<>> /\ optIdx = 0 /\ optCfg = NewDefaultConfig
    /\ optNs = NoDescriptors

IdleNew ==
    /\ pc = "idle" /\ c = NewDefaultConfig /\ cfg = NoCfg /\ trace = <<>>
    /\ result = NoResult /\ cur = NoCall /\ prev = Summary(NoCall)
    /\ calls = 0 /\ envSteps = 0
    /\ fs = [p \in Paths |-> "absent"]
    /\ db = InitDb(fs)

IdleLifecycle ==
    /\ callerLog = <<>> /\ received = <<>>
    /\ inflight = 0 /\ startErr = "nil" /\ startRet = "nil"

IdleClient == now = 0 /\ clientCall = NoClientCall /\ clientOut = NoClientOut

IdleFacade == srv = NoServer /\ IdleLifecycle /\ IdleClient

-----------------------------------------------------------------------------
(* Spec: successive NewServer calls *)

Init ==
    /\ pc = "idle" /\ c = NewDefaultConfig /\ cfg = NoCfg /\ trace = <<>>
    /\ result = NoResult /\ cur = NoCall /\ prev = Summary(NoCall)
    /\ calls = 0 /\ envSteps = 0
    /\ fs \in InitFs
    /\ db = InitDb(fs)
    /\ IdleOptions
    /\ IdleFacade

Next ==
    \/ CallNewServer
    \/ StatStep
    \/ SetupSchemaStep
    \/ NamespacesStep
    \/ AuthorizerStep
    \/ ClaimMapperStep
    \/ ConstructStep
    \/ EnvRemoveFile
    \/ EnvCreateFile

Spec == Init /\ [][Next]_vars

-----------------------------------------------------------------------------
(* SpecOptions: the option loop and the descriptor loop on every option    *)
(* list up to MaxOpts                                                      *)

InitOptions ==
    /\ optList \in SeqsUpTo(AllOptions, MaxOpts)
    /\ optIdx = 0
    /\ optCfg = NewDefaultConfig
    /\ optNs = NoDescriptors
    /\ IdleNew
    /\ IdleFacade

\* One iteration of the loop at lines 39-41.
ApplyNextOption ==
    /\ optIdx < Len(optList)
    /\ optCfg' = apply(optList[optIdx + 1], optCfg)
    /\ optIdx' = optIdx + 1
    /\ UNCHANGED <<optList, optNs, newVars, facVars>>

\* Lines 42 and 57-60 once the loop is over.
BuildNamespaceConfigs ==
    /\ optIdx = Len(optList)
    /\ ~optNs.built
    /\ \E dynPort \in IF optCfg.DynamicPorts THEN DynPorts ELSE {0} :
         optNs' = [ built |-> TRUE,
                    list |-> NamespaceConfigs(Convert(optCfg, dynPort), optCfg) ]
    /\ UNCHANGED <<optList, optIdx, optCfg, newVars, facVars>>

NextOptions ==
    \/ ApplyNextOption
    \/ BuildNamespaceConfigs

SpecOptions == InitOptions /\ [][NextOptions]_vars

-----------------------------------------------------------------------------
(* Claims about the options *)

\* The options applied so far.
Applied == SubSeq(optList, 1, optIdx)

\* The fields an option writes, and the value it writes to a scalar field,
\* as the documentation of the WithX constructors states them.
WrittenFields(opt) ==
    CASE opt.kind = "WithLogger" -> {"Logger"}
      [] opt.kind = "WithDatabaseFilePath" -> {"Ephemeral", "DatabaseFilePath"}
      [] opt.kind = "WithPersistenceDisabled" -> {"Ephemeral"}
      [] opt.kind = "WithFrontendPort" -> {"FrontendPort"}
      [] opt.kind = "WithDynamicPorts" -> {"DynamicPorts"}
      [] opt.kind = "WithNamespaces" -> {"Namespaces"}
      [] opt.kind = "WithInterruptOn" -> {"InterruptOn"}

WrittenValue(opt, field) ==
    CASE field = "Logger" -> opt.str
      [] field = "DatabaseFilePath" -> opt.str
      [] field = "Ephemeral" -> (opt.kind = "WithPersistenceDisabled")
      [] field = "FrontendPort" -> opt.num
      [] field = "DynamicPorts" -> TRUE
      [] field = "InterruptOn" -> opt.str

ScalarFields ==
    {"Ephemeral", "DatabaseFilePath", "FrontendPort", "DynamicPorts", "Logger",
     "InterruptOn"}

Writers(opts, field) == { i \in 1..Len(opts) : field \in WrittenFields(opts[i]) }

MaxOf(S) == CHOOSE x \in S : \A y \in S : y <= x

LastWritten(opts, field) ==
    IF Writers(opts, field) = {} THEN NewDefaultConfig[field]
    ELSE WrittenValue(opts[MaxOf(Writers(opts, field))], field)

Swapped(opts, i) ==
    [ k \in 1..Len(opts) |->
        IF k = i THEN opts[i + 1] ELSE IF k = i + 1 THEN opts[i] ELSE opts[k] ]

\* C6: after any number of options, every scalar field of the configuration
\* holds the value written by the last applied option that writes it, or the
\* default when none does; and swapping two adjacent options that write
\* disjoint fields leaves the final configuration unchanged.
C6_LastWriterWins ==
    /\ \A field \in ScalarFields : optCfg[field] = LastWritten(Applied, field)
    /\ optIdx = Len(optList) =>
         \A i \in 1..(Len(optList) - 1) :
            WrittenFields(optList[i]) \cap WrittenFields(optList[i + 1]) = {}
               => ApplyOpts(Swapped(optList, i), NewDefaultConfig) = optCfg

\* WithPersistenceDisabled() then WithDatabaseFilePath("x.db") has been
\* applied and the configuration is file-backed on x.db.
C6_Witness ==
    /\ optIdx = 2
    /\ Applied = <<WithPersistenceDisabled, WithDatabaseFilePath("x.db")>>
    /\ ~optCfg.Ephemeral
    /\ optCfg.DatabaseFilePath = "x.db"

\* The arguments of the WithNamespaces options of a list, concatenated.
RECURSIVE NamespaceArgs(_)
NamespaceArgs(opts) ==
    IF opts = <<>> THEN <<>>
    ELSE (IF Head(opts).kind = "WithNamespaces" THEN Head(opts).list ELSE <<>>)
         \o NamespaceArgs(Tail(opts))

\* C7: the namespace list is the default list followed by the arguments of
\* every applied WithNamespaces option, in option order and argument order,
\* duplicates kept; and the descriptors built for namespace creation are one
\* per list entry, in the same order.
C7_NamespacesCumulative ==
    /\ optCfg.Namespaces = NewDefaultConfig.Namespaces \o NamespaceArgs(Applied)
    /\ optNs.built =>
         /\ Len(optNs.list) = Len(NamespaceArgs(optList))
         /\ \A i \in 1..Len(optNs.list) :
              optNs.list[i] = [ ClusterName |-> ClusterName,
                                Name |-> NamespaceArgs(optList)[i],
                                IsGlobal |-> FALSE ]

\* WithNamespaces("a") then WithNamespaces("b") gave descriptors for a, b.
C7_Witness ==
    /\ optList = <<WithNamespaces(<<"a">>), WithNamespaces(<<"b">>)>>
    /\ optNs.built
    /\ optCfg.Namespaces = <<"a", "b">>
    /\ [i \in 1..2 |-> optNs.list[i].Name] = <<"a", "b">>

-----------------------------------------------------------------------------
(* Claims about NewServer *)

Range(seq) == { seq[i] : i \in 1..Len(seq) }

Count(seq, x) == Cardinality({ i \in 1..Len(seq) : seq[i] = x })

\* C1: with nobody else changing the path while the call runs, the schema
\* block ran sqlite.SetupSchema exactly when the configuration is ephemeral,
\* or file-backed with no file at DatabaseFilePath at the time of the call;
\* ephemeral mode never consults the file system, whatever DatabaseFilePath
\* is; an existing file never gets the schema set up.
C1_AsStated ==
    (cur.schemaDone /\ ~cur.envDuring) =>
        /\ cur.ranSchema <=> (cur.eph \/ (~cur.eph /\ ~Exists(cur.fsAtCall)))
        /\ cur.eph => cur.statErr = "notConsulted" /\ "os.Stat" \notin Range(trace)
        /\ (~cur.eph /\ Exists(cur.fsAtCall)) => ~cur.ranSchema

\* The failing case: a file-backed call on a path with no file, left alone
\* by everyone else, whose os.Stat failed with an error other than
\* not-exist, went past the schema block without sqlite.SetupSchema.
C1_Witness ==
    /\ cur.schemaDone
    /\ ~cur.eph
    /\ ~cur.envDuring
    /\ ~Exists(cur.fsAtCall) /\ cur.fsAtStat = cur.fsAtCall
    /\ cur.statErr = "ENOTDIR"
    /\ ~cur.ranSchema
    /\ "SetupSchema" \notin Range(trace)

\* Two calls on the same database file, the second one begun.
SamePath ==
    /\ prev.valid /\ prev.configured /\ cur.configured
    /\ ~prev.eph /\ ~cur.eph
    /\ prev.path = cur.path

\* C2: with nobody else changing the path while the calls run or between
\* them: when a file-backed call on a path without a file succeeds, it has
\* run sqlite.SetupSchema and the file exists when it returns, and the next
\* call on that path finds the file and skips sqlite.SetupSchema. The check
\* is made anew by every call, whatever the earlier one did: a call whose
\* os.Stat finds no file runs sqlite.SetupSchema.
C2_SecondCallSkips ==
    /\ (SamePath /\ prev.ok /\ ~Exists(prev.fsAtCall) /\ ~prev.envDuring) =>
          /\ prev.ranSchema
          /\ prev.fsAtReturn = "present"
    /\ (/\ SamePath /\ prev.ok /\ ~Exists(prev.fsAtCall)
        /\ ~prev.envDuring /\ ~prev.envSince /\ ~cur.envDuring) =>
          /\ cur.fsAtCall = "present"
          /\ cur.schemaDone => (~cur.ranSchema /\ cur.statErr = "nil")
    /\ (SamePath /\ prev.ok /\ cur.schemaDone) =>
          /\ cur.fsAtStat = "absent" => cur.ranSchema
          /\ cur.fsAtStat = "present" => ~cur.ranSchema

\* The first call created the schema and succeeded, the second one on the
\* same file skipped the schema and succeeded, and nobody else touched the
\* file.
C2_Witness ==
    /\ SamePath
    /\ prev.ok /\ prev.fsAtCall = "absent" /\ prev.ranSchema
    /\ ~prev.envDuring /\ ~prev.envSince /\ ~cur.envDuring
    /\ cur.ok /\ ~cur.ranSchema

\* C3: a call whose schema step did not fail calls sqlite.CreateNamespaces
\* exactly once, with one descriptor per configured namespace (none for an
\* empty list), whether or not sqlite.SetupSchema ran, and whatever
\* namespaces the store already holds.
C3_NamespacesEveryStartup ==
    (/\ cur.configured /\ cur.schemaDone /\ cur.failedAt # "SetupSchema"
     /\ pc # "namespaces") =>
        /\ cur.nsCalls = 1
        /\ Count(trace, "CreateNamespaces") = 1
        /\ Len(cur.nsArgs) = Len(c.Namespaces)
        /\ \A i \in 1..Len(c.Namespaces) :
              cur.nsArgs[i] = [ ClusterName |-> ClusterName,
                                Name |-> c.Namespaces[i],
                                IsGlobal |-> FALSE ]

\* A restart on an existing database file skipped the schema, created again
\* namespaces an earlier construction had stored, and succeeded.
C3_Witness ==
    /\ SamePath /\ prev.ok
    /\ cur.ok /\ ~cur.ranSchema
    /\ cur.nsArgs # <<>>
    /\ { cur.nsArgs[i].Name : i \in 1..Len(cur.nsArgs) } \subseteq cur.nsBefore

\* The steps of NewServer in source order; os.Stat and SetupSchema are the
\* conditional ones.
StepOrder ==
    << "NewDefaultConfig", "apply", "Convert", "os.Stat", "SetupSchema",
       "CreateNamespaces", "GetAuthorizerFromConfig",
       "GetClaimMapperFromConfig", "temporal.NewServer" >>

Position(step) == CHOOSE i \in 1..Len(StepOrder) : StepOrder[i] = step

Mandatory(step) == step \notin {"os.Stat", "SetupSchema"}

\* The steps of seq that are mandatory, in order.
RECURSIVE MandatoryOf(_)
MandatoryOf(seq) ==
    IF seq = <<>> THEN <<>>
    ELSE (IF Mandatory(Head(seq)) THEN <<Head(seq)>> ELSE <<>>)
         \o MandatoryOf(Tail(seq))

WrappedSteps ==
    {"SetupSchema", "CreateNamespaces", "GetAuthorizerFromConfig",
     "GetClaimMapperFromConfig"}

\* C8: the steps run in source order, each at most once and none skipped
\* but the conditional ones; a failing step is the last one run and the call
\* returns no server and an error whose message names that step; a call that
\* returns a server has run every mandatory step; and two calls that failed
\* in different steps returned errors with different messages.
C8_FailFast ==
    /\ \A i \in 1..Len(trace) : trace[i] \in Range(StepOrder)
    /\ \A i \in 1..(Len(trace) - 1) :
          Position(trace[i]) < Position(trace[i + 1])
    /\ MandatoryOf(trace) =
          SubSeq(MandatoryOf(StepOrder), 1, Len(MandatoryOf(trace)))
    /\ (cur.returned /\ ~cur.ok) =>
          /\ pc = "idle"
          /\ result.returned /\ ~result.server.valid
          /\ result.err = cur.err
          /\ result.err.cause \in Causes
          /\ trace[Len(trace)] = cur.failedAt
          /\ cur.failedAt = "NewDefaultConfig" => result.err.prefix = ""
          /\ cur.failedAt = "SetupSchema" =>
                result.err.prefix = "error setting up schema"
          /\ cur.failedAt = "CreateNamespaces" =>
                result.err.prefix = "error creating namespaces"
          /\ cur.failedAt = "GetAuthorizerFromConfig" =>
                result.err.prefix = "unable to instantiate authorizer"
          /\ cur.failedAt = "GetClaimMapperFromConfig" =>
                result.err.prefix = "unable to instantiate claim mapper"
    /\ (cur.returned /\ cur.ok) =>
          /\ pc = "idle"
          /\ result.returned /\ result.server.valid /\ result.err = NoErr
          /\ MandatoryOf(trace) = MandatoryOf(StepOrder)
    /\ (/\ prev.valid /\ ~prev.ok /\ cur.returned /\ ~cur.ok
        /\ prev.failedAt \in WrappedSteps /\ cur.failedAt \in WrappedSteps
        /\ prev.failedAt # cur.failedAt) =>
          prev.err.prefix # cur.err.prefix

\* One call failed in sqlite.SetupSchema and the next in
\* sqlite.CreateNamespaces, right after which it returned.
C8_Witness ==
    /\ prev.valid /\ ~prev.ok /\ prev.failedAt = "SetupSchema"
    /\ cur.returned /\ ~cur.ok /\ cur.failedAt = "CreateNamespaces"
    /\ trace[Len(trace)] = "CreateNamespaces"
    /\ ~result.server.valid

\* A retry of a failed file-backed call whose sqlite.SetupSchema had created
\* the database file, the file being there when the failed call returned
\* and nobody else changing the path since.
Retry ==
    /\ prev.valid /\ ~prev.ok /\ prev.created
    /\ prev.fsAtReturn = "present" /\ ~prev.envSince
    /\ cur.configured /\ ~cur.eph /\ cur.path = prev.path
    /\ ~cur.envDuring

\* What a retry finds.
RetrySkipsSchema ==
    /\ (cur.returned /\ ~cur.ok /\ cur.created /\ ~cur.envDuring) =>
          /\ cur.fsAtReturn = "present"
          /\ ~cur.envSince => fs[cur.path] = "present"
    /\ Retry =>
          /\ cur.fsAtCall = "present"
          /\ cur.schemaDone => (~cur.ranSchema /\ cur.statErr = "nil")
          /\ cur.nsCalls > 0 =>
                /\ cur.schemaAtNs = prev.schemaAtReturn
                /\ SubSeq(trace, 1, 5) =
                      << "NewDefaultConfig", "apply", "Convert", "os.Stat",
                         "CreateNamespaces" >>

\* No step of NewServer removes a database file or takes anything away from
\* the store behind it: a file disappears or loses schema only by a step of
\* someone else.
NothingUndone ==
    \A p \in Paths :
        \/ envSteps' # envSteps
        \/ /\ Exists(fs[p]) => Exists(fs'[p])
           /\ db[p].schema = "complete" => db'[p].schema = "complete"
           /\ db[p].schema = "partial" => db'[p].schema # "none"
           /\ db[p].namespaces \subseteq db'[p].namespaces

\* C9: no step of NewServer undoes what an earlier step did, so a failed
\* call leaves in place the database file its sqlite.SetupSchema created;
\* with nobody else changing the path, a retry on it finds the file, skips
\* sqlite.SetupSchema and goes straight to sqlite.CreateNamespaces, on the
\* schema the failed call left behind.
C9_NoRollback == []RetrySkipsSchema /\ [][NothingUndone]_vars

\* sqlite.SetupSchema failed partway, and the retry called
\* sqlite.CreateNamespaces on the partial schema.
C9_Witness ==
    /\ Retry
    /\ prev.failedAt = "SetupSchema" /\ prev.schemaAtReturn = "partial"
    /\ cur.nsCalls = 1 /\ cur.schemaAtNs = "partial"
    /\ ~cur.ranSchema

-----------------------------------------------------------------------------
(* SpecClient: the client factory of a constructed Server *)

InitClient ==
    /\ srv \in Servers
    /\ IdleClient
    /\ IdleLifecycle
    /\ IdleOptions
    /\ IdleNew

Tick ==
    /\ now < MaxTime
    /\ now' = now + 1
    /\ UNCHANGED <<srv, clientCall, clientOut, callerLog, received, inflight,
                   startErr, startRet, optVars, newVars>>

\* Lines 110-112. The factory methods read the Server and their arguments
\* and write nothing, so a behaviour makes one factory call, at any time.
CallNewClient ==
    /\ ~clientOut.called
    /\ \E ctx \in Contexts(now), namespace \in {""} \cup Names,
          err \in ClientErrors :
         /\ clientCall' = [ method |-> "NewClient", ctx |-> ctx, at |-> now,
                            namespace |-> namespace, options |-> ZeroOptions ]
         /\ clientOut' = [ called |-> TRUE,
                           options |-> NewClient(srv, ctx, now, namespace),
                           err |-> err ]
    /\ UNCHANGED <<srv, now, callerLog, received, inflight, startErr, startRet,
                   optVars, newVars>>

\* Lines 119-126.
CallNewClientWithOptions ==
    /\ ~clientOut.called
    /\ \E ctx \in Contexts(now), options \in CallerOptions,
          err \in ClientErrors :
         /\ clientCall' = [ method |-> "NewClientWithOptions", ctx |-> ctx,
                            at |-> now, namespace |-> "", options |-> options ]
         /\ clientOut' = [ called |-> TRUE,
                           options |-> NewClientWithOptions(srv, ctx, now, options),
                           err |-> err ]
    /\ UNCHANGED <<srv, now, callerLog, received, inflight, startErr, startRet,
                   optVars, newVars>>

NextClient ==
    \/ Tick
    \/ CallNewClient
    \/ CallNewClientWithOptions

SpecClient == InitClient /\ [][NextClient]_vars

\* C4: the options given to client.NewClient carry the frontend address the
\* Server recorded from the converted configuration and connection options
\* made anew (health check enabled, timeout from the context), whatever the
\* caller supplied for the two; Namespace and Identity are the caller's; and
\* NewClient(ctx, ns) gives what NewClientWithOptions gives for options
\* holding only Namespace = ns.
C4_AddressAlwaysOverridden ==
    clientOut.called =>
        /\ srv.frontendHostPort = srv.internal.config.HostPort
        /\ clientOut.options.HostPort = srv.frontendHostPort
        /\ clientOut.options.ConnectionOptions =
              [ DisableHealthCheck |-> FALSE,
                HealthCheckTimeout |->
                    IF clientCall.ctx.hasDeadline
                    THEN clientCall.ctx.deadline - clientCall.at
                    ELSE TimeMinute ]
        /\ clientCall.method = "NewClientWithOptions" =>
              /\ clientOut.options.Namespace = clientCall.options.Namespace
              /\ clientOut.options.Identity = clientCall.options.Identity
        /\ clientCall.method = "NewClient" =>
              /\ clientOut.options.Namespace = clientCall.namespace
              /\ clientOut.options.Identity = ""

\* A caller passed its own address and connection options with a namespace;
\* the client got the Server's address, the health check, and the namespace.
C4_Witness ==
    /\ clientOut.called
    /\ clientCall.method = "NewClientWithOptions"
    /\ clientCall.options.HostPort.host = "10.0.0.9"
    /\ clientCall.options.ConnectionOptions.DisableHealthCheck
    /\ clientCall.options.Namespace = "a"
    /\ clientOut.options.HostPort = srv.frontendHostPort
    /\ clientOut.options.HostPort # clientCall.options.HostPort
    /\ clientOut.options.Namespace = "a"

\* C5: with a deadline the health-check timeout is the time left to the
\* deadline when the call is made, so at most the span the context was given;
\* without one it is one minute; the caller's options never enter into it.
C5_TimeoutFromDeadline ==
    clientOut.called =>
        LET timeout == clientOut.options.ConnectionOptions.HealthCheckTimeout
            ctx == clientCall.ctx
        IN  /\ ctx.hasDeadline =>
                 /\ timeout = ctx.deadline - clientCall.at
                 /\ timeout <= ctx.span
            /\ ~ctx.hasDeadline => timeout = 60

\* A call made some time into a 5-second deadline, with a caller-supplied
\* address and timeout, got less than 5 seconds.
C5_Witness ==
    /\ clientOut.called
    /\ clientCall.ctx.hasDeadline /\ clientCall.ctx.span = 5
    /\ clientCall.options.HostPort.host = "10.0.0.9"
    /\ clientCall.options.ConnectionOptions.HealthCheckTimeout = 9
    /\ clientOut.options.ConnectionOptions.HealthCheckTimeout \in 1..4

-----------------------------------------------------------------------------
(* SpecLifecycle: Start and Stop of a constructed Server *)

InitLifecycle ==
    /\ srv \in Servers
    /\ IdleLifecycle
    /\ IdleClient
    /\ IdleOptions
    /\ IdleNew

\* Line 100, the call: s.internal.Start() is entered and blocks.
CallStart ==
    /\ Len(callerLog) < MaxFacadeCalls
    /\ callerLog' = Append(callerLog, "Start")
    /\ received' = StartForward(received)
    /\ inflight' = inflight + 1
    /\ UNCHANGED <<srv, startErr, startRet, now, clientCall, clientOut,
                   optVars, newVars>>

\* Line 100, the return: what s.internal.Start() ended with is returned.
ReturnStart ==
    /\ inflight > 0
    /\ inflight' = inflight - 1
    /\ \E err \in StartErrors :
         /\ startErr' = err
         /\ startRet' = err
    /\ UNCHANGED <<srv, callerLog, received, now, clientCall, clientOut,
                   optVars, newVars>>

\* Lines 104-106.
CallStop ==
    /\ Len(callerLog) < MaxFacadeCalls
    /\ callerLog' = Append(callerLog, "Stop")
    /\ received' = StopForward(received)
    /\ UNCHANGED <<srv, inflight, startErr, startRet, now, clientCall,
                   clientOut, optVars, newVars>>

NextLifecycle ==
    \/ CallStart
    \/ ReturnStart
    \/ CallStop

SpecLifecycle == InitLifecycle /\ [][NextLifecycle]_vars

\* The state of the wrapped server on the documented path.
WrappedState ==
    IF received = <<>> THEN "constructed"
    ELSE IF received[Len(received)] = "Start" THEN "started"
    ELSE "stopped"

\* C10: the wrapped server has received exactly the Start and Stop calls
\* made on the facade, each once and in order, whatever calls came before;
\* a blocked Start is one the wrapped server has received, and Start returns
\* the error the wrapped server's Start ended with; on the documented path the wrapped server goes constructed, started, stopped.
C10_CallsForwardedUnfiltered ==
    /\ received = callerLog
    /\ startRet = startErr
    /\ inflight <= Count(received, "Start")
    /\ callerLog = <<>> => WrappedState = "constructed"
    /\ callerLog = <<"Start">> => WrappedState = "started"
    /\ callerLog = <<"Start", "Stop">> => WrappedState = "stopped"

\* Stop before Start, a second Stop, then Start after Stop: all three calls
\* reached the wrapped server.
C10_Witness ==
    /\ callerLog = <<"Stop", "Stop", "Start">>
    /\ received = <<"Stop", "Stop", "Start">>

=============================================================================
